---- MODULE Spec2Model ----
(***************************************************************************)
(* The speech-assessment pipeline of QanotAI (app/api/ai_assessment.py and *)
(* app/services/ai_service.py): the five module-level stores, the route    *)
(* handlers that fill and read them, and the background job that scores    *)
(* an attempt.                                                             *)
(*                                                                         *)
(* The handlers are coroutines on one event loop.  A coroutine gives the   *)
(* loop away only where it really suspends: at the backend calls, which    *)
(* go through asyncio.to_thread, and between a response and the background *)
(* job that follows it.  Everything between two such points is one step.   *)
(***************************************************************************)
EXTENDS Integers, Sequences, FiniteSets, TLC

VARIABLES
    settings,          \* app.core.config.settings, read once by the services
    transcripts_db,    \* the dicts of ai_assessment.py, in insertion order
    scores_db,
    feedback_db,
    analysis_db,
    tasks_db,
    jobs,              \* the process_scoring coroutines handed to BackgroundTasks
    mock_calls,        \* the create_mock_score requests in flight
    last               \* the step last taken and what it answered

vars == <<settings, transcripts_db, scores_db, feedback_db, analysis_db,
          tasks_db, jobs, mock_calls, last>>

(***************************************************************************)
(* Bounds of the model.                                                    *)
(***************************************************************************)
\* how many tasks, transcripts and mock-score requests the clients may have
\* made, taken together, when they make another request that adds one
MaxLoad == 3

\* attempt ids a client sends
Attempts == {"a1", "a2"}
\* parts a client names in a transcription request
Parts == {"part1"}
\* the audio_urls a client sends with a scoring request, as the segments they
\* name: {"part1_0": url} is the recording of part1, question 0
RequestSegments == {[part |-> "part1", question_index |-> 0]}
\* the target band a client sends with a scoring request (7.5)
TargetBands == {<<15>>}
\* target_band of create_mock_score when the client names none (7.0)
default_target_band == <<14>>
\* str(uuid.uuid4()) where it becomes an attempt id: one fresh string per transcript
UuidStr == <<"uuid-1", "uuid-2", "uuid-3", "uuid-4", "uuid-5", "uuid-6">>

None == "None"

(***************************************************************************)
(* Python dicts with string keys: the task records and the JSON bodies.    *)
(***************************************************************************)
Get(d, k) == IF k \in DOMAIN d THEN d[k] ELSE None
Put(d, k, v) == [x \in (DOMAIN d) \cup {k} |-> IF x = k THEN v ELSE d[x]]

\* uuid.uuid4() as the key of a new entry of db: nothing is ever deleted from a
\* store, and every entry is stored in the step that draws its id, so the next
\* index is a key no entry has.
uuid4(db) == Len(db) + 1

Range(s) == {s[i] : i \in DOMAIN s}

(***************************************************************************)
(* The deployments: which scoring and which transcription path the         *)
(* services take is fixed by the settings they read when they are built.   *)
(***************************************************************************)
Deployments ==
    { [AI_PROVIDER |-> "openai", OPENAI_API_KEY |-> TRUE,
       ANTHROPIC_API_KEY |-> FALSE, STT_PROVIDER |-> "openai"],
      [AI_PROVIDER |-> "anthropic", OPENAI_API_KEY |-> FALSE,
       ANTHROPIC_API_KEY |-> TRUE, STT_PROVIDER |-> "openai"],
      [AI_PROVIDER |-> "openai", OPENAI_API_KEY |-> FALSE,
       ANTHROPIC_API_KEY |-> FALSE, STT_PROVIDER |-> "google"] }

\* exceptions and returns
Raise(kind, message) == [raised |-> TRUE, exc |-> [kind |-> kind, message |-> message]]
Return(v) == [raised |-> FALSE, value |-> v]

\* str(e): the message of the exception, without its class
Str(e) == [message |-> e.message]

(***************************************************************************)
(* Numbers.  Bands are counted in half bands (6.0 is 12, 9.0 is 18), and   *)
(* confidences in hundredths (0.9 is 90).                                  *)
(***************************************************************************)
\* an Optional[float] argument or field: <<>> is None, <<x>> is the value x
Some(x) == <<x>>
Nothing == <<>>
\* "if x:" on an Optional[float]: None and 0.0 are both false
Truthy(optional) == optional # Nothing /\ optional[1] # 0

(***************************************************************************)
(* Texts.  The code looks at a text in four ways: how many words           *)
(* text.split() cuts it into, how many text.lower().split() does, which    *)
(* of the latter are in the filler lexicon of _analyze_transcript, and     *)
(* whether "um" or "uh" occurs in it.  A text is kept as these four.       *)
(***************************************************************************)
\* a text in which lower() changes no word boundary, given by its counts
Text(words, fillers, um_uh) ==
    [words |-> words, lower_words |-> words, fillers |-> fillers,
     um_uh |-> um_uh]

\* n filler words
Fillers(n) == [i \in 1..n |-> "um"]

\* A text character by character, over a letter that is in the filler
\* lexicon's "um", its upper case, and the blank.
Chars == {"u", "m", "U", " "}

\* str.lower()
lower(chars) == [i \in DOMAIN chars |-> IF chars[i] = "U" THEN "u" ELSE chars[i]]

\* str.split(): the maximal runs of characters that are not whitespace
RECURSIVE split(_)
split(chars) ==
    IF chars = <<>> THEN <<>>
    ELSE IF Head(chars) = " " THEN split(Tail(chars))
    ELSE LET rest == split(Tail(chars))
         IN  IF Len(chars) > 1 /\ chars[2] # " "
             THEN <<(<<Head(chars)>> \o Head(rest))>> \o Tail(rest)
             ELSE <<(<<Head(chars)>>)>> \o rest

\* sub in chars
Contains(chars, sub) ==
    \E i \in 1..(Len(chars) - Len(sub) + 1) :
        SubSeq(chars, i, i + Len(sub) - 1) = sub

\* [w for w in words if w in filler_words]: of the lexicon only "um" can be
\* written with Chars
IsFiller(word) == word = <<"u", "m">>

\* the text that reads chars, as the code looks at it
TextOf(chars) ==
    [words |-> Len(split(chars)),
     lower_words |-> Len(split(lower(chars))),
     fillers |-> Fillers(Len(SelectSeq(split(lower(chars)), IsFiller))),
     um_uh |-> Contains(chars, <<"u", "m">>)]

\* sample_text of _mock_transcription: its "Um," is not the word "um"
mock_sample_text == Text(48, <<>>, FALSE)

\* samples.get(part, samples["part1"]) of mock_transcribe
samples(part) ==
    IF part = "part2" THEN Text(82, <<>>, FALSE)
    ELSE IF part = "part3" THEN Text(47, <<>>, FALSE)
    ELSE Text(35, <<>>, FALSE)

(***************************************************************************)
(* TranscriptionService                                                    *)
(***************************************************************************)
\* what openai_service.transcribe_audio does: it returns the text Whisper
\* heard, or it raises
WhisperText(text) == [error |-> FALSE, text |-> text]
WhisperError == [error |-> TRUE]
WhisperOutcomes == {WhisperText(Text(60, <<"um">>, TRUE)), WhisperError}

mock_transcription ==
    [attempt_id |-> "mock", part |-> "part1", question_index |-> 0,
     text |-> mock_sample_text, confidence |-> 92,
     word_count |-> mock_sample_text.words, filler_words |-> <<>>,
     transcription_service |-> "mock"]

transcribe_with_whisper(outcome) ==
    IF outcome.error
    THEN mock_transcription                 \* except Exception: fall back
    ELSE [attempt_id |-> "", part |-> "", question_index |-> 0,
          text |-> outcome.text, confidence |-> 90,
          word_count |-> 0, filler_words |-> <<>>,
          transcription_service |-> "openai-whisper"]

\* how often transcribe_audio calls the Whisper backend for one upload: once
\* inside the try of _transcribe_with_whisper, whatever the call does, and
\* not at all where Whisper is not configured
backend_calls(outcome) ==
    IF settings.STT_PROVIDER = "openai" /\ settings.OPENAI_API_KEY
    THEN 1
    ELSE 0

\* a variant that returns the transcript as it came
analyze_transcript_skipped(transcript) == transcript

analyze_transcript(transcript) ==
    [transcript EXCEPT !.word_count = transcript.text.lower_words,
                       !.filler_words = transcript.text.fillers]

TranscriptionService_transcribe_audio(outcome) ==
    analyze_transcript(
        IF settings.STT_PROVIDER = "openai" /\ settings.OPENAI_API_KEY
        THEN transcribe_with_whisper(outcome)
        ELSE mock_transcription)

(***************************************************************************)
(* openai_service.assess_ielts_response                                    *)
(***************************************************************************)
\* what the chat completion does: it answers with a JSON object, or the call
\* or json.loads raises
Assessment(result) == [error |-> FALSE, assessment |-> result]
AssessError == [error |-> TRUE]

\* the dict of the except branch: every band 5.0
fallback_assessment ==
    [fluency_coherence |-> 10, lexical_resource |-> 10, grammatical_range |-> 10,
     pronunciation |-> 10, overall_band |-> 10]

assess_ielts_response(reply) ==
    IF reply.error THEN fallback_assessment ELSE reply.assessment

(***************************************************************************)
(* ScoringService                                                          *)
(***************************************************************************)
\* the replies the scoring backend gives in the pipeline: an assessment the
\* BandScore accepts, and one whose overall band (9.5) its validation rejects
AssessOutcomes ==
    { Assessment([fluency_coherence |-> 13, lexical_resource |-> 13,
                  grammatical_range |-> 13, pronunciation |-> 13,
                  overall_band |-> 13]),
      Assessment([fluency_coherence |-> 13, lexical_resource |-> 13,
                  grammatical_range |-> 13, pronunciation |-> 13,
                  overall_band |-> 19]) }

\* Field(ge=0.0, le=9.0)
ValidBand(band) == band >= 0 /\ band <= 18

\* result.get(key, 6.0)
GetBand(result, key) == IF key \in DOMAIN result THEN result[key] ELSE 12

\* sum(f(t) for t in transcripts)
RECURSIVE SumWords(_)
SumWords(transcripts) ==
    IF transcripts = <<>> THEN 0
    ELSE Head(transcripts).word_count + SumWords(Tail(transcripts))

RECURSIVE SumFillers(_)
SumFillers(transcripts) ==
    IF transcripts = <<>> THEN 0
    ELSE Len(Head(transcripts).filler_words) + SumFillers(Tail(transcripts))

Min(a, b) == IF a < b THEN a ELSE b
Max(a, b) == IF a > b THEN a ELSE b

\* base_score of _mock_scoring
base_score(transcripts) ==
    LET n == Len(transcripts)
        total_words == SumWords(transcripts)       \* avg_words * n
        total_fillers == SumFillers(transcripts)
        by_words == IF transcripts = <<>> THEN 0
                    ELSE (IF total_words > 50 * n THEN 1 ELSE 0)
                         + (IF total_words > 80 * n THEN 1 ELSE 0)
        by_fillers == IF transcripts = <<>> THEN 0
                      ELSE IF total_fillers < 3 THEN 1
                      ELSE IF total_fillers > 10 THEN -1
                      ELSE 0
    IN  Min(18, Max(8, 12 + by_words + by_fillers))

mock_scoring(id, transcripts) ==
    LET base == base_score(transcripts)
    IN  [id |-> id,
         attempt_id |-> IF transcripts # <<>> THEN transcripts[1].attempt_id
                        ELSE "mock",
         overall_band |-> base,
         fluency_coherence |-> base + 1,
         lexical_resource |-> base - 1,
         grammatical_range_accuracy |-> base,
         pronunciation |-> base + 1,
         target_band |-> Nothing,
         gap_to_target |-> Nothing,
         scoring_model |-> "mock"]

score_with_gpt(id, transcripts, reply) ==
    IF transcripts = <<>>
    THEN mock_scoring(id, transcripts)      \* transcripts[0]: IndexError, caught
    ELSE LET result == assess_ielts_response(reply)
             score ==
                 [id |-> id,
                  attempt_id |-> transcripts[1].attempt_id,
                  overall_band |-> GetBand(result, "overall_band"),
                  fluency_coherence |-> GetBand(result, "fluency_coherence"),
                  lexical_resource |-> GetBand(result, "lexical_resource"),
                  grammatical_range_accuracy |->
                      GetBand(result, "grammatical_range"),
                  pronunciation |-> GetBand(result, "pronunciation"),
                  target_band |-> Nothing,
                  gap_to_target |-> Nothing,
                  scoring_model |-> "gpt-4-turbo"]
         IN  IF /\ ValidBand(score.overall_band)
                /\ ValidBand(score.fluency_coherence)
                /\ ValidBand(score.lexical_resource)
                /\ ValidBand(score.grammatical_range_accuracy)
                /\ ValidBand(score.pronunciation)
             THEN score
             ELSE mock_scoring(id, transcripts)   \* ValidationError, caught

calculate_band_score(id, transcripts, target_band, reply) ==
    IF settings.AI_PROVIDER = "anthropic" /\ settings.ANTHROPIC_API_KEY
          /\ ~(settings.AI_PROVIDER = "openai" /\ settings.OPENAI_API_KEY)
    THEN Raise("AttributeError",
               "'ScoringService' object has no attribute '_score_with_claude'")
    ELSE LET score == IF settings.AI_PROVIDER = "openai" /\ settings.OPENAI_API_KEY
                      THEN score_with_gpt(id, transcripts, reply)
                      ELSE mock_scoring(id, transcripts)
         IN  Return(IF Truthy(target_band)
                    THEN [score EXCEPT
                             !.target_band = target_band,
                             !.gap_to_target =
                                 Some(target_band[1] - score.overall_band)]
                    ELSE score)

\* calculate_band_score gives the event loop away exactly when it reaches the
\* backend call of _score_with_gpt; transcripts[0] of an empty list raises first
Suspends(transcripts) ==
    /\ settings.AI_PROVIDER = "openai" /\ settings.OPENAI_API_KEY
    /\ transcripts # <<>>

(***************************************************************************)
(* FeedbackService                                                         *)
(***************************************************************************)
\* a variant that refers to the score the attempt is found under, as get_score
\* finds it, instead of the score it was handed
generate_feedback_by_attempt(id, score, transcripts) ==
    LET hits == {i \in DOMAIN scores_db :
                     scores_db[i].attempt_id = score.attempt_id}
    IN  [id |-> id, attempt_id |-> score.attempt_id,
         score_id |-> IF hits = {} THEN score.id
                      ELSE scores_db[CHOOSE i \in hits : \A j \in hits : i <= j].id]

generate_feedback(id, score, transcripts) ==
    [id |-> id, attempt_id |-> score.attempt_id, score_id |-> score.id]

analyze_language(id, transcript) ==
    [id |-> id, attempt_id |-> transcript.attempt_id, transcript_id |-> transcript.id]

(***************************************************************************)
(* The event loop                                                          *)
(***************************************************************************)
\* pc of a coroutine that is inside calculate_band_score:
\*   "scoring": suspended at the backend call, the loop is free;
\*   "running": on a path without a backend call, it still holds the loop.
ScoringPc(transcripts) == IF Suspends(transcripts) THEN "scoring" ELSE "running"

Load == Len(tasks_db) + Len(transcripts_db) + Len(mock_calls)

LoopFree ==
    /\ \A t \in DOMAIN jobs : jobs[t].pc # "running"
    /\ \A c \in DOMAIN mock_calls : mock_calls[c].pc # "running"

TranscriptsOf(db, attempt_id) ==
    LET OfAttempt(t) == t.attempt_id = attempt_id
    IN  SelectSeq(db, OfAttempt)

\* the for loop over attempt_transcripts that fills analysis_db
RECURSIVE Analyses(_, _)
Analyses(db, transcripts) ==
    IF transcripts = <<>>
    THEN db
    ELSE Analyses(Append(db, analyze_language(uuid4(db), Head(transcripts))),
                  Tail(transcripts))

(***************************************************************************)
(* POST /transcribe                                                        *)
(***************************************************************************)
\* lines 56-59: the service's transcript with the request's metadata, as stored
StoredTranscript(id, attempt_id, part, question_index, made) ==
    [id |-> id,
     attempt_id |-> IF attempt_id = None THEN UuidStr[id] ELSE attempt_id,
     part |-> IF part = None THEN "unknown" ELSE part,
     question_index |-> question_index,
     text |-> made.text,
     confidence |-> made.confidence,
     word_count |-> made.word_count,
     filler_words |-> made.filler_words,
     transcription_service |-> made.transcription_service]

transcribe_audio(audio, attempt_id, part, question_index, outcome) ==
    /\ LoopFree
    /\ IF audio = "unreadable"
       THEN \* audio_file.read() raises: except Exception -> HTTP 500
            /\ last' = [op |-> "transcribe_audio", status_code |-> 500]
            /\ UNCHANGED transcripts_db
       ELSE /\ Load < MaxLoad
            /\ LET id == uuid4(transcripts_db)
                   made == TranscriptionService_transcribe_audio(outcome)
                   transcript == StoredTranscript(id, attempt_id, part,
                                                  question_index, made)
               IN  /\ transcripts_db' = Append(transcripts_db, transcript)
                   /\ last' = [op |-> "transcribe_audio", status_code |-> 200,
                               body |-> transcript,
                               backend_calls |-> backend_calls(outcome)]
    /\ UNCHANGED <<settings, scores_db, feedback_db, analysis_db, tasks_db,
                   jobs, mock_calls>>

(***************************************************************************)
(* POST /transcribe/mock                                                   *)
(***************************************************************************)
MockTranscript(id, attempt_id, part, question_index, sample_text) ==
    [id |-> id, attempt_id |-> attempt_id, part |-> part,
     question_index |-> question_index,
     text |-> sample_text, confidence |-> 92,
     word_count |-> sample_text.words,
     filler_words |-> IF sample_text.um_uh THEN <<"um", "uh">> ELSE <<>>,
     transcription_service |-> "mock"]

\* "if not request.sample_text": the sample of the part stands in for a
\* sample_text that is None (or empty, which the caller passes as Nothing)
mock_transcribe(attempt_id, part, question_index, sample_text) ==
    /\ LoopFree
    /\ Load < MaxLoad
    /\ LET text == IF sample_text = Nothing THEN samples(part)
                   ELSE sample_text[1]
           transcript == MockTranscript(uuid4(transcripts_db), attempt_id, part,
                                        question_index, text)
       IN  /\ transcripts_db' = Append(transcripts_db, transcript)
           /\ last' = [op |-> "mock_transcribe", status_code |-> 200,
                       body |-> transcript]
    /\ UNCHANGED <<settings, scores_db, feedback_db, analysis_db, tasks_db,
                   jobs, mock_calls>>

(***************************************************************************)
(* POST /score                                                             *)
(***************************************************************************)
\* a variant that awaits process_scoring in the handler instead of handing it to
\* BackgroundTasks: the task is already being processed when the handler answers
score_attempt_inline(attempt_id, audio_urls, target_band, urgent) ==
    /\ LoopFree
    /\ Load < MaxLoad
    /\ LET task_id == uuid4(tasks_db)
           attempt_transcripts == TranscriptsOf(transcripts_db, attempt_id)
       IN  /\ tasks_db' = Append(tasks_db,
                                 [id |-> task_id, status |-> "processing",
                                  attempt_id |-> attempt_id])
           /\ jobs' = Append(jobs, [pc |-> ScoringPc(attempt_transcripts),
                                    task_id |-> task_id,
                                    attempt_id |-> attempt_id,
                                    target_band |-> target_band,
                                    attempt_transcripts |-> attempt_transcripts,
                                    elapsed |-> 0])
           /\ last' = [op |-> "score_attempt", status_code |-> 200,
                       body |-> [task_id |-> task_id, status |-> "pending",
                                 estimated_time_seconds |->
                                     IF urgent THEN 15 ELSE 30]]
    /\ UNCHANGED <<settings, transcripts_db, scores_db, feedback_db, analysis_db,
                   mock_calls>>

\* request.audio_urls is validated with the request and read nowhere: it is not
\* stored in the task and not passed to process_scoring
score_attempt(attempt_id, audio_urls, target_band, urgent) ==
    /\ LoopFree
    /\ Load < MaxLoad
    /\ LET task_id == uuid4(tasks_db)
       IN  /\ tasks_db' = Append(tasks_db,
                                 [id |-> task_id, status |-> "pending",
                                  attempt_id |-> attempt_id])
           \* background_tasks.add_task(process_scoring, task_id, attempt_id, ...)
           /\ jobs' = Append(jobs, [pc |-> "scheduled", task_id |-> task_id,
                                    attempt_id |-> attempt_id,
                                    target_band |-> target_band,
                                    attempt_transcripts |-> <<>>,
                                    elapsed |-> 0])
           /\ last' = [op |-> "score_attempt", status_code |-> 200,
                       body |-> [task_id |-> task_id, status |-> "pending",
                                 estimated_time_seconds |->
                                     IF urgent THEN 15 ELSE 30]]
    /\ UNCHANGED <<settings, transcripts_db, scores_db, feedback_db, analysis_db,
                   mock_calls>>

(***************************************************************************)
(* process_scoring, the background job                                     *)
(***************************************************************************)
SetStatus(task, status) == Put(task, "status", status)

\* a variant in which a job that has finished may be run again
process_scoring_restart(task_id) ==
    /\ LoopFree
    /\ task_id \in DOMAIN jobs
    /\ jobs[task_id].pc \in {"scheduled", "done"}
    /\ LET attempt_transcripts ==
               TranscriptsOf(transcripts_db, jobs[task_id].attempt_id)
       IN  /\ tasks_db' = [tasks_db EXCEPT
                              ![task_id] = SetStatus(@, "processing")]
           /\ jobs' = [jobs EXCEPT
                          ![task_id].pc = ScoringPc(attempt_transcripts),
                          ![task_id].attempt_transcripts = attempt_transcripts]
    /\ last' = [op |-> "process_scoring", task_id |-> task_id]
    /\ UNCHANGED <<settings, transcripts_db, scores_db, feedback_db, analysis_db,
                   mock_calls>>

\* a variant that does not mark the task as processing before it works on it
process_scoring_start_unmarked(task_id) ==
    /\ LoopFree
    /\ task_id \in DOMAIN jobs
    /\ jobs[task_id].pc = "scheduled"
    /\ LET attempt_transcripts ==
               TranscriptsOf(transcripts_db, jobs[task_id].attempt_id)
       IN  jobs' = [jobs EXCEPT
                       ![task_id].pc = ScoringPc(attempt_transcripts),
                       ![task_id].attempt_transcripts = attempt_transcripts]
    /\ last' = [op |-> "process_scoring", task_id |-> task_id]
    /\ UNCHANGED <<settings, transcripts_db, scores_db, feedback_db, analysis_db,
                   tasks_db, mock_calls>>

\* a variant that finds the record to mark by the attempt id, not by the task id
process_scoring_start_by_attempt(task_id) ==
    /\ LoopFree
    /\ task_id \in DOMAIN jobs
    /\ jobs[task_id].pc = "scheduled"
    /\ LET attempt_transcripts ==
               TranscriptsOf(transcripts_db, jobs[task_id].attempt_id)
       IN  /\ tasks_db' = [t \in DOMAIN tasks_db |->
                              IF tasks_db[t]["attempt_id"] = jobs[task_id].attempt_id
                                 /\ tasks_db[t]["status"] = "pending"
                              THEN SetStatus(tasks_db[t], "processing")
                              ELSE tasks_db[t]]
           /\ jobs' = [jobs EXCEPT
                          ![task_id].pc = ScoringPc(attempt_transcripts),
                          ![task_id].attempt_transcripts = attempt_transcripts]
    /\ last' = [op |-> "process_scoring", task_id |-> task_id]
    /\ UNCHANGED <<settings, transcripts_db, scores_db, feedback_db, analysis_db,
                   mock_calls>>

\* lines 162-176: mark the task, collect the attempt's transcripts, call the scorer
process_scoring_start(task_id) ==
    /\ LoopFree
    /\ task_id \in DOMAIN jobs
    /\ jobs[task_id].pc = "scheduled"
    /\ LET attempt_transcripts ==
               TranscriptsOf(transcripts_db, jobs[task_id].attempt_id)
       IN  /\ tasks_db' = [tasks_db EXCEPT
                              ![task_id] = SetStatus(@, "processing")]
           /\ jobs' = [jobs EXCEPT
                          ![task_id].pc = ScoringPc(attempt_transcripts),
                          ![task_id].attempt_transcripts = attempt_transcripts]
    /\ last' = [op |-> "process_scoring", task_id |-> task_id]
    /\ UNCHANGED <<settings, transcripts_db, scores_db, feedback_db, analysis_db,
                   mock_calls>>

\* a variant that closes the task without its result references
CompletedWithoutRefs(task, score, feedback) == SetStatus(task, "completed")

\* the task record once the pipeline has run through
Completed(task, score, feedback) ==
    Put(Put(SetStatus(task, "completed"), "score_id", score.id),
        "feedback_id", feedback.id)

\* the task record of the except branch
Failed(task, e) == Put(SetStatus(task, "failed"), "error", Str(e))

\* a variant in which generate_feedback raises: the score is stored by then
process_scoring_finish_failing_late(task_id, outcome) ==
    /\ task_id \in DOMAIN jobs
    /\ \/ jobs[task_id].pc = "running"
       \/ jobs[task_id].pc = "scoring" /\ LoopFree
    /\ LET attempt_transcripts == jobs[task_id].attempt_transcripts
           called == calculate_band_score(uuid4(scores_db), attempt_transcripts,
                                          jobs[task_id].target_band, outcome)
       IN  IF called.raised
           THEN /\ tasks_db' = [tasks_db EXCEPT
                                   ![task_id] = Failed(@, called.exc)]
                /\ UNCHANGED scores_db
           ELSE /\ scores_db' = Append(scores_db, called.value)
                /\ tasks_db' = [tasks_db EXCEPT
                                   ![task_id] = Failed(@, [message |-> "feedback"])]
    /\ jobs' = [jobs EXCEPT ![task_id].pc = "done"]
    /\ last' = [op |-> "process_scoring", task_id |-> task_id]
    /\ UNCHANGED <<settings, transcripts_db, feedback_db, analysis_db, mock_calls>>

\* a variant that collects the attempt's transcripts again for the analyses
process_scoring_finish_rereading(task_id, outcome) ==
    /\ task_id \in DOMAIN jobs
    /\ \/ jobs[task_id].pc = "running"
       \/ jobs[task_id].pc = "scoring" /\ LoopFree
    /\ LET attempt_transcripts == jobs[task_id].attempt_transcripts
           called == calculate_band_score(uuid4(scores_db), attempt_transcripts,
                                          jobs[task_id].target_band, outcome)
       IN  IF called.raised
           THEN /\ tasks_db' = [tasks_db EXCEPT
                                   ![task_id] = Failed(@, called.exc)]
                /\ UNCHANGED <<scores_db, feedback_db, analysis_db>>
           ELSE LET score == called.value
                    feedback == generate_feedback(uuid4(feedback_db), score,
                                                  attempt_transcripts)
                IN  /\ scores_db' = Append(scores_db, score)
                    /\ feedback_db' = Append(feedback_db, feedback)
                    /\ analysis_db' =
                           Analyses(analysis_db,
                                    TranscriptsOf(transcripts_db,
                                                  jobs[task_id].attempt_id))
                    /\ tasks_db' = [tasks_db EXCEPT
                                       ![task_id] = Completed(@, score, feedback)]
    /\ jobs' = [jobs EXCEPT ![task_id].pc = "done"]
    /\ last' = [op |-> "process_scoring", task_id |-> task_id]
    /\ UNCHANGED <<settings, transcripts_db, mock_calls>>

\* lines 173-200: the scorer returns or raises; store the results, close the task
\* a variant without the except branch: what the scorer raises leaves the job
process_scoring_finish_unhandled(task_id, outcome) ==
    /\ task_id \in DOMAIN jobs
    /\ \/ jobs[task_id].pc = "running"
       \/ jobs[task_id].pc = "scoring" /\ LoopFree
    /\ LET attempt_transcripts == jobs[task_id].attempt_transcripts
           called == calculate_band_score(uuid4(scores_db), attempt_transcripts,
                                          jobs[task_id].target_band, outcome)
       IN  IF called.raised
           THEN UNCHANGED <<tasks_db, scores_db, feedback_db, analysis_db>>
           ELSE LET score == called.value
                    feedback == generate_feedback(uuid4(feedback_db), score,
                                                  attempt_transcripts)
                IN  /\ scores_db' = Append(scores_db, score)
                    /\ feedback_db' = Append(feedback_db, feedback)
                    /\ analysis_db' = Analyses(analysis_db, attempt_transcripts)
                    /\ tasks_db' = [tasks_db EXCEPT
                                       ![task_id] = Completed(@, score, feedback)]
    /\ jobs' = [jobs EXCEPT ![task_id].pc = "done"]
    /\ last' = [op |-> "process_scoring", task_id |-> task_id]
    /\ UNCHANGED <<settings, transcripts_db, mock_calls>>

process_scoring_finish(task_id, outcome) ==
    /\ task_id \in DOMAIN jobs
    /\ \/ jobs[task_id].pc = "running"
       \/ jobs[task_id].pc = "scoring" /\ LoopFree
    /\ LET attempt_transcripts == jobs[task_id].attempt_transcripts
           called == calculate_band_score(uuid4(scores_db), attempt_transcripts,
                                          jobs[task_id].target_band, outcome)
       IN  IF called.raised
           THEN /\ tasks_db' = [tasks_db EXCEPT
                                   ![task_id] = Failed(@, called.exc)]
                /\ UNCHANGED <<scores_db, feedback_db, analysis_db>>
           ELSE LET score == called.value
                    feedback == generate_feedback(uuid4(feedback_db), score,
                                                  attempt_transcripts)
                IN  /\ scores_db' = Append(scores_db, score)
                    /\ feedback_db' = Append(feedback_db, feedback)
                    /\ analysis_db' = Analyses(analysis_db, attempt_transcripts)
                    /\ tasks_db' = [tasks_db EXCEPT
                                       ![task_id] = Completed(@, score, feedback)]
    /\ jobs' = [jobs EXCEPT ![task_id].pc = "done"]
    /\ last' = [op |-> "process_scoring", task_id |-> task_id]
    /\ UNCHANGED <<settings, transcripts_db, mock_calls>>

(***************************************************************************)
(* GET /score/{attempt_id}                                                 *)
(***************************************************************************)
\* for score in scores_db.values(): the first one of the attempt, in insertion order
FirstOf(db, attempt_id) ==
    LET hits == {i \in DOMAIN db : db[i].attempt_id = attempt_id}
    IN  IF hits = {} THEN None
        ELSE db[CHOOSE i \in hits : \A j \in hits : i <= j]

get_score(attempt_id) ==
    /\ LoopFree
    /\ LET hits == {i \in DOMAIN scores_db : scores_db[i].attempt_id = attempt_id}
       IN  last' = IF hits = {}
                   THEN [op |-> "get_score", attempt_id |-> attempt_id,
                         status_code |-> 404]
                   ELSE [op |-> "get_score", attempt_id |-> attempt_id,
                         status_code |-> 200,
                         body |-> FirstOf(scores_db, attempt_id)]
    /\ UNCHANGED <<settings, transcripts_db, scores_db, feedback_db, analysis_db,
                   tasks_db, jobs, mock_calls>>

(***************************************************************************)
(* GET /feedback/{attempt_id}                                              *)
(***************************************************************************)
get_feedback(attempt_id) ==
    /\ LoopFree
    /\ LET hits == {i \in DOMAIN feedback_db :
                        feedback_db[i].attempt_id = attempt_id}
       IN  last' = IF hits = {}
                   THEN [op |-> "get_feedback", attempt_id |-> attempt_id,
                         status_code |-> 404]
                   ELSE [op |-> "get_feedback", attempt_id |-> attempt_id,
                         status_code |-> 200,
                         body |-> FirstOf(feedback_db, attempt_id)]
    /\ UNCHANGED <<settings, transcripts_db, scores_db, feedback_db, analysis_db,
                   tasks_db, jobs, mock_calls>>

(***************************************************************************)
(* GET /analysis/{transcript_id}                                           *)
(***************************************************************************)
\* for analysis in analysis_db.values(): the first one of the transcript
get_language_analysis(transcript_id) ==
    /\ LoopFree
    /\ LET hits == {i \in DOMAIN analysis_db :
                        analysis_db[i].transcript_id = transcript_id}
       IN  last' = IF hits = {}
                   THEN [op |-> "get_language_analysis",
                         transcript_id |-> transcript_id, status_code |-> 404]
                   ELSE [op |-> "get_language_analysis",
                         transcript_id |-> transcript_id, status_code |-> 200,
                         body |-> analysis_db[CHOOSE i \in hits :
                                                  \A j \in hits : i <= j]]
    /\ UNCHANGED <<settings, transcripts_db, scores_db, feedback_db, analysis_db,
                   tasks_db, jobs, mock_calls>>

(***************************************************************************)
(* GET /task/{task_id}                                                     *)
(***************************************************************************)
\* a variant that copies the result references and the error whatever the status
TaskResponseWithRefs(task_id, task) ==
    [task_id |-> task_id, status |-> task["status"],
     attempt_id |-> task["attempt_id"],
     score_id |-> Get(task, "score_id"),
     feedback_id |-> Get(task, "feedback_id"),
     error |-> Get(task, "error")]

\* the response dict built from the task record
TaskResponse(task_id, task) ==
    LET response == [task_id |-> task_id, status |-> task["status"],
                     attempt_id |-> task["attempt_id"]]
    IN  IF task["status"] = "completed"
        THEN Put(Put(Put(response, "score_id", Get(task, "score_id")),
                     "feedback_id", Get(task, "feedback_id")),
                 "result_url", <<"/api/v1/assessment/score", task["attempt_id"]>>)
        ELSE IF task["status"] = "failed"
        THEN Put(response, "error", Get(task, "error"))
        ELSE response

\* a variant that notes in the task record that the task was polled
get_task_status_marking(task_id) ==
    /\ LoopFree
    /\ task_id \in DOMAIN tasks_db
    /\ tasks_db' = [tasks_db EXCEPT ![task_id] = Put(@, "polled", TRUE)]
    /\ last' = [op |-> "get_task_status", task_id |-> task_id,
                status_code |-> 200,
                body |-> [task_id |-> task_id, status |-> tasks_db[task_id]["status"],
                          attempt_id |-> tasks_db[task_id]["attempt_id"]]]
    /\ UNCHANGED <<settings, transcripts_db, scores_db, feedback_db, analysis_db,
                   jobs, mock_calls>>

get_task_status(task_id) ==
    /\ LoopFree
    /\ last' = IF task_id \notin DOMAIN tasks_db
               THEN [op |-> "get_task_status", task_id |-> task_id,
                     status_code |-> 404]
               ELSE [op |-> "get_task_status", task_id |-> task_id,
                     status_code |-> 200,
                     body |-> TaskResponse(task_id, tasks_db[task_id])]
    /\ UNCHANGED <<settings, transcripts_db, scores_db, feedback_db, analysis_db,
                   tasks_db, jobs, mock_calls>>

(***************************************************************************)
(* POST /mock-score/{attempt_id}                                           *)
(***************************************************************************)
\* lines 306-330: make the three sample transcripts if the attempt has none,
\* collect the attempt's transcripts, call the scorer
SampleTranscripts(db, attempt_id) ==
    LET one == Append(db, MockTranscript(uuid4(db), attempt_id, "part1", 0,
                                         samples("part1")))
        two == Append(one, MockTranscript(uuid4(one), attempt_id, "part2", 0,
                                          samples("part2")))
    IN  Append(two, MockTranscript(uuid4(two), attempt_id, "part3", 0,
                                   samples("part3")))

create_mock_score_start(attempt_id, target_band) ==
    /\ LoopFree
    /\ Load < MaxLoad
    /\ LET db == IF \E t \in Range(transcripts_db) : t.attempt_id = attempt_id
                 THEN transcripts_db
                 ELSE SampleTranscripts(transcripts_db, attempt_id)
           attempt_transcripts == TranscriptsOf(db, attempt_id)
       IN  /\ transcripts_db' = db
           /\ mock_calls' = Append(mock_calls,
                                   [pc |-> ScoringPc(attempt_transcripts),
                                    attempt_id |-> attempt_id,
                                    target_band |-> target_band,
                                    attempt_transcripts |-> attempt_transcripts])
    /\ last' = [op |-> "create_mock_score", attempt_id |-> attempt_id]
    /\ UNCHANGED <<settings, scores_db, feedback_db, analysis_db, tasks_db, jobs>>

\* lines 327-352: the scorer returns or raises; store the results, answer
create_mock_score_finish(call, outcome) ==
    /\ call \in DOMAIN mock_calls
    /\ \/ mock_calls[call].pc = "running"
       \/ mock_calls[call].pc = "scoring" /\ LoopFree
    /\ LET attempt_id == mock_calls[call].attempt_id
           attempt_transcripts == mock_calls[call].attempt_transcripts
           called == calculate_band_score(uuid4(scores_db), attempt_transcripts,
                                          mock_calls[call].target_band, outcome)
       IN  IF called.raised
           THEN \* nothing catches it: HTTP 500
                /\ last' = [op |-> "create_mock_score", attempt_id |-> attempt_id,
                            status_code |-> 500]
                /\ UNCHANGED <<scores_db, feedback_db, analysis_db>>
           ELSE LET score == called.value
                    feedback == generate_feedback(uuid4(feedback_db), score,
                                                  attempt_transcripts)
                IN  /\ scores_db' = Append(scores_db, score)
                    /\ feedback_db' = Append(feedback_db, feedback)
                    /\ analysis_db' = Analyses(analysis_db, attempt_transcripts)
                    /\ last' = [op |-> "create_mock_score",
                                attempt_id |-> attempt_id, status_code |-> 200,
                                body |-> [attempt_id |-> attempt_id,
                                          score_id |-> score.id,
                                          overall_band |-> score.overall_band]]
    /\ mock_calls' = [mock_calls EXCEPT ![call].pc = "done"]
    /\ UNCHANGED <<settings, transcripts_db, tasks_db, jobs>>

(***************************************************************************)
(* The program                                                             *)
(***************************************************************************)
Init ==
    /\ settings \in Deployments
    /\ transcripts_db = <<>>
    /\ scores_db = <<>>
    /\ feedback_db = <<>>
    /\ analysis_db = <<>>
    /\ tasks_db = <<>>
    /\ jobs = <<>>
    /\ mock_calls = <<>>
    /\ last = [op |-> "startup"]

Next ==
    \/ \E audio \in {"audio", "unreadable"}, attempt_id \in Attempts,
          part \in Parts, outcome \in WhisperOutcomes :
           transcribe_audio(audio, attempt_id, part, 0, outcome)
    \/ \E attempt_id \in Attempts, part \in Parts :
           mock_transcribe(attempt_id, part, 0, Nothing)
    \/ \E attempt_id \in Attempts, target_band \in TargetBands,
          urgent \in BOOLEAN :
           score_attempt(attempt_id, RequestSegments, target_band, urgent)
    \/ \E task_id \in DOMAIN jobs : process_scoring_start(task_id)
    \/ \E task_id \in DOMAIN jobs, outcome \in AssessOutcomes :
           process_scoring_finish(task_id, outcome)
    \/ \E attempt_id \in Attempts : get_score(attempt_id)
    \/ \E task_id \in 1..(Len(tasks_db) + 1) : get_task_status(task_id)
    \/ \E attempt_id \in Attempts :
           create_mock_score_start(attempt_id, default_target_band)
    \/ \E call \in DOMAIN mock_calls, outcome \in AssessOutcomes :
           create_mock_score_finish(call, outcome)

Spec == Init /\ [][Next]_vars

(***************************************************************************)
(* The handlers that feed and run the job, on an event loop that runs what *)
(* is ready to run: a job that was scheduled is started, a coroutine that  *)
(* holds the loop goes on, and a backend call that was made returns or     *)
(* raises.                                                                 *)
(***************************************************************************)
NextJobs ==
    \/ \E attempt_id \in Attempts, part \in Parts, outcome \in WhisperOutcomes :
           transcribe_audio("audio", attempt_id, part, 0, outcome)
    \/ \E attempt_id \in Attempts, target_band \in TargetBands :
           score_attempt(attempt_id, RequestSegments, target_band, FALSE)
    \/ \E task_id \in DOMAIN jobs : process_scoring_start(task_id)
    \/ \E task_id \in DOMAIN jobs, outcome \in AssessOutcomes :
           process_scoring_finish(task_id, outcome)

Fairness ==
    \A task_id \in 1..MaxLoad :
        /\ WF_vars(process_scoring_start(task_id))
        /\ WF_vars(\E outcome \in AssessOutcomes :
                       process_scoring_finish(task_id, outcome))

SpecFair == Init /\ [][NextJobs]_vars /\ Fairness

(***************************************************************************)
(* The two transcription handlers on texts given character by character:   *)
(* the first two transcriptions of an attempt, of what Whisper heard or of  *)
(* the sample_text the client sent.                                        *)
(***************************************************************************)
\* how long a text is at most
MaxChars == 4

Strings == UNION { [1..n -> Chars] : n \in 0..MaxChars }

\* request.sample_text of a client that sends chars
SampleText(chars) == IF chars = <<>> THEN Nothing ELSE Some(TextOf(chars))

NextText ==
    /\ Len(transcripts_db) < 2
    /\ \/ \E chars \in Strings :
              transcribe_audio("audio", "a1", "part1", 0,
                               WhisperText(TextOf(chars)))
       \/ transcribe_audio("audio", "a1", "part1", 0, WhisperError)
       \/ \E chars \in Strings :
              mock_transcribe("a1", "part1", 0, SampleText(chars))

SpecText == Init /\ [][NextText]_vars

(***************************************************************************)
(* The pipeline with the handlers that read the feedback and the analyses  *)
(***************************************************************************)
NextReads ==
    \/ Next
    \/ \E attempt_id \in Attempts : get_feedback(attempt_id)
    \/ \E transcript_id \in 1..(Len(transcripts_db) + 1) :
           get_language_analysis(transcript_id)

SpecReads == Init /\ [][NextReads]_vars

(***************************************************************************)
(* The pipeline with the time a job spends waiting for the scoring backend *)
(***************************************************************************)
\* settings.SCORING_TIMEOUT, in seconds
SCORING_TIMEOUT == 60
\* the seconds that pass in one step of the clock
TickSeconds == 30
\* the longest wait for the backend that is followed
MaxElapsed == 90

\* time passes while jobs are suspended at asyncio.to_thread: nothing in
\* process_scoring, calculate_band_score or assess_ielts_response reads
\* SCORING_TIMEOUT or bounds the wait
Tick ==
    /\ \E t \in DOMAIN jobs : jobs[t].pc = "scoring"
    /\ \A t \in DOMAIN jobs :
           jobs[t].pc = "scoring" => jobs[t].elapsed + TickSeconds <= MaxElapsed
    /\ jobs' = [t \in DOMAIN jobs |->
                   IF jobs[t].pc = "scoring"
                   THEN [jobs[t] EXCEPT !.elapsed = @ + TickSeconds]
                   ELSE jobs[t]]
    /\ last' = [op |-> "tick"]
    /\ UNCHANGED <<settings, transcripts_db, scores_db, feedback_db, analysis_db,
                   tasks_db, mock_calls>>

NextTimed ==
    \/ Next
    \/ Tick

SpecTimed == Init /\ [][NextTimed]_vars

(***************************************************************************)
(* ScoringService.calculate_band_score on its own: one call of it, with    *)
(* the transcripts of an attempt as the handlers of this deployment store  *)
(* them, a target band and a reply of the scoring backend.                 *)
(***************************************************************************)
\* how many transcripts the scored attempt has at most
MaxTranscripts == 2

\* what was said: short and clean, longer with one filler word, long with many
SpokenTexts ==
    { Text(35, <<>>, FALSE), Text(60, Fillers(1), TRUE), Text(90, Fillers(11), TRUE) }

\* the transcript of a text as POST /transcribe/mock stores it and, where
\* Whisper is configured, as POST /transcribe stores it
TranscriptsAt(id) ==
    { MockTranscript(id, "a1", "part1", 0, text) : text \in SpokenTexts }
    \cup
    IF settings.STT_PROVIDER = "openai" /\ settings.OPENAI_API_KEY
    THEN { StoredTranscript(id, "a1", "part1", 0,
               TranscriptionService_transcribe_audio(WhisperText(text))) :
           text \in SpokenTexts }
    ELSE {}

TranscriptLists ==
    UNION { { transcripts \in [1..n -> UNION {TranscriptsAt(i) : i \in 1..n}] :
                  \A i \in 1..n : transcripts[i].id = i } :
            n \in 0..MaxTranscripts }

\* target_band: None, 0.0, 6.5, 9.0
ScoringTargets == { Nothing, Some(0), Some(13), Some(18) }

\* the backend raises, or answers with an assessment: a consistent one, one
\* whose overall band is not the mean of its criteria, one that leaves keys
\* out, one with a band above 9
ScoringReplies ==
    { AssessError,
      Assessment([fluency_coherence |-> 13, lexical_resource |-> 13,
                  grammatical_range |-> 13, pronunciation |-> 13,
                  overall_band |-> 13]),
      Assessment([fluency_coherence |-> 14, lexical_resource |-> 12,
                  grammatical_range |-> 13, pronunciation |-> 15,
                  overall_band |-> 14]),
      Assessment([fluency_coherence |-> 12, lexical_resource |-> 12,
                  grammatical_range |-> 12, pronunciation |-> 12,
                  overall_band |-> 16]),
      Assessment([overall_band |-> 14]),
      Assessment([fluency_coherence |-> 13, lexical_resource |-> 13,
                  grammatical_range |-> 19, pronunciation |-> 13,
                  overall_band |-> 13]) }

InitScoring ==
    /\ settings \in Deployments
    /\ transcripts_db = <<>>
    /\ scores_db = <<>>
    /\ feedback_db = <<>>
    /\ analysis_db = <<>>
    /\ tasks_db = <<>>
    /\ jobs = <<>>
    /\ mock_calls = <<>>
    /\ last \in { [op |-> "call", transcripts |-> transcripts,
                   target_band |-> target_band] :
                      transcripts \in TranscriptLists,
                      target_band \in ScoringTargets }

ScoringService_calculate_band_score(reply) ==
    /\ last.op = "call"
    /\ last' = [op |-> "calculate_band_score",
                transcripts |-> last.transcripts,
                target_band |-> last.target_band,
                reply |-> reply,
                called |-> calculate_band_score(1, last.transcripts,
                                                last.target_band, reply)]
    /\ UNCHANGED <<settings, transcripts_db, scores_db, feedback_db, analysis_db,
                   tasks_db, jobs, mock_calls>>

NextScoring ==
    \E reply \in ScoringReplies : ScoringService_calculate_band_score(reply)

SpecScoring == InitScoring /\ [][NextScoring]_vars

(***************************************************************************)
(* The three stage operations as process_scoring calls them one after the  *)
(* other for a task it has marked as processing: the scorer, then the      *)
(* feedback generator on the score, then the language analyzer on each of  *)
(* the collected transcripts.  What process_scoring itself does with what  *)
(* they return is left out here.                                           *)
(***************************************************************************)
InitStages ==
    /\ settings \in Deployments
    /\ transcripts_db \in TranscriptLists
    /\ scores_db = <<>>
    /\ feedback_db = <<>>
    /\ analysis_db = <<>>
    /\ tasks_db = <<[id |-> 1, status |-> "processing", attempt_id |-> "a1"]>>
    /\ \E target_band \in ScoringTargets :
           /\ jobs = <<[pc |-> ScoringPc(transcripts_db), task_id |-> 1,
                        attempt_id |-> "a1", target_band |-> target_band,
                        attempt_transcripts |-> transcripts_db, elapsed |-> 0]>>
           /\ last = [op |-> "call", transcripts |-> transcripts_db,
                      target_band |-> target_band]
    /\ mock_calls = <<>>

\* a variant that files the report it has generated in feedback_db itself
FeedbackService_generate_feedback_storing ==
    /\ last.op = "calculate_band_score"
    /\ ~last.called.raised
    /\ LET feedback == generate_feedback(uuid4(feedback_db), last.called.value,
                                         last.transcripts)
       IN  /\ feedback_db' = Append(feedback_db, feedback)
           /\ last' = [op |-> "generate_feedback", transcripts |-> last.transcripts,
                       analyzed |-> 0, called |-> feedback]
    /\ UNCHANGED <<settings, transcripts_db, scores_db, analysis_db,
                   tasks_db, jobs, mock_calls>>

FeedbackService_generate_feedback ==
    /\ last.op = "calculate_band_score"
    /\ ~last.called.raised
    /\ last' = [op |-> "generate_feedback", transcripts |-> last.transcripts,
                analyzed |-> 0,
                called |-> generate_feedback(uuid4(feedback_db), last.called.value,
                                             last.transcripts)]
    /\ UNCHANGED <<settings, transcripts_db, scores_db, feedback_db, analysis_db,
                   tasks_db, jobs, mock_calls>>

\* the call for the next transcript of the for loop
FeedbackService_analyze_language ==
    /\ last.op \in {"generate_feedback", "analyze_language"}
    /\ last.analyzed < Len(last.transcripts)
    /\ last' = [op |-> "analyze_language", transcripts |-> last.transcripts,
                analyzed |-> last.analyzed + 1,
                called |-> analyze_language(last.analyzed + 1,
                                            last.transcripts[last.analyzed + 1])]
    /\ UNCHANGED <<settings, transcripts_db, scores_db, feedback_db, analysis_db,
                   tasks_db, jobs, mock_calls>>

NextStages ==
    \/ \E reply \in ScoringReplies : ScoringService_calculate_band_score(reply)
    \/ FeedbackService_generate_feedback
    \/ FeedbackService_analyze_language

SpecStages == InitStages /\ [][NextStages]_vars

(***************************************************************************)
(* Properties                                                              *)
(***************************************************************************)
Terminal == {"completed", "failed"}
NonTerminal == {"pending", "processing"}

TasksOf(attempt_id) ==
    {t \in DOMAIN tasks_db : tasks_db[t]["attempt_id"] = attempt_id}

ActiveTasksOf(attempt_id) ==
    {t \in TasksOf(attempt_id) : tasks_db[t]["status"] \in NonTerminal}

\* C1: for each attempt id at most one task of the registry is pending or
\* processing (a create for an attempt that has such a task registers nothing).
C1_OneActiveTaskPerAttempt ==
    \A attempt_id \in Attempts : Cardinality(ActiveTasksOf(attempt_id)) <= 1

\* C2: of two creates for one attempt that overlap, only one task is ever run:
\* no job is scheduled for an attempt that has a pending or processing task,
\* and no task moves to processing while another task of its attempt is
\* pending or processing.
C2_OneOfTwoCreatesRuns ==
    [][ /\ \A t \in (DOMAIN jobs') \ (DOMAIN jobs) :
               ActiveTasksOf(jobs'[t].attempt_id) = {}
        /\ \A t \in DOMAIN tasks_db :
               (tasks_db[t]["status"] = "pending"
                    /\ tasks_db'[t]["status"] = "processing")
               => ActiveTasksOf(tasks_db[t]["attempt_id"]) = {t} ]_vars

\* C3: a task that is completed or failed keeps its status in every later step.
C3_TerminalIsFinal ==
    [][ \A t \in DOMAIN tasks_db :
            tasks_db[t]["status"] \in Terminal
            => /\ t \in DOMAIN tasks_db'
               /\ tasks_db'[t]["status"] = tasks_db[t]["status"] ]_vars

\* C3 witness: a task is closed and, after that, another task has been worked on.
C3_Witness ==
    \E t \in DOMAIN tasks_db :
        /\ tasks_db[t]["status"] \in Terminal
        /\ last.op = "process_scoring"
        /\ last.task_id # t

\* C4: a task is registered as pending, and every change of a task's status is
\* pending -> processing, processing -> completed or processing -> failed.
C4_StatusTransitions ==
    [][ /\ \A t \in (DOMAIN tasks_db') \ (DOMAIN tasks_db) :
               tasks_db'[t]["status"] = "pending"
        /\ \A t \in (DOMAIN tasks_db) \cap (DOMAIN tasks_db') :
               tasks_db'[t]["status"] # tasks_db[t]["status"]
               => <<tasks_db[t]["status"], tasks_db'[t]["status"]>> \in
                      { <<"pending", "processing">>,
                        <<"processing", "completed">>,
                        <<"processing", "failed">> } ]_vars

\* C4 witness: the job has just closed a task.
C4_Witness ==
    /\ last.op = "process_scoring"
    /\ last.task_id \in DOMAIN tasks_db
    /\ tasks_db[last.task_id]["status"] \in Terminal

\* C5: a completed task names a stored BandScore and a stored FeedbackReport,
\* and that report is the report of that score.
C5_CompletedHasResults ==
    \A t \in DOMAIN tasks_db :
        tasks_db[t]["status"] = "completed"
        => /\ "score_id" \in DOMAIN tasks_db[t]
           /\ "feedback_id" \in DOMAIN tasks_db[t]
           /\ \E s \in Range(scores_db) : s.id = tasks_db[t]["score_id"]
           /\ \E f \in Range(feedback_db) :
                  /\ f.id = tasks_db[t]["feedback_id"]
                  /\ f.score_id = tasks_db[t]["score_id"]

\* C5 witness: a task is completed while the stores hold the results of another
\* scoring as well.
C5_Witness ==
    /\ \E t \in DOMAIN tasks_db : tasks_db[t]["status"] = "completed"
    /\ Len(scores_db) >= 2
    /\ Len(feedback_db) >= 2

\* C6: a failed task carries an error detail that has a kind and a message.
C6_FailedHasErrorDetail ==
    \A t \in DOMAIN tasks_db :
        tasks_db[t]["status"] = "failed"
        => /\ "error" \in DOMAIN tasks_db[t]
           /\ {"kind", "message"} \subseteq DOMAIN tasks_db[t]["error"]

\* C7: the answer to a poll shows the task's status; it holds score_id and
\* feedback_id only if that status is completed, an error only if it is failed,
\* and neither for a pending or processing task.
C7_ProjectionMatchesStatus ==
    (last.op = "get_task_status" /\ last.status_code = 200)
    => LET body == last.body
       IN  /\ body["status"] = tasks_db[last.task_id]["status"]
           /\ ({"score_id", "feedback_id"} \cap DOMAIN body # {}
                   => body["status"] = "completed")
           /\ ("error" \in DOMAIN body => body["status"] = "failed")
           /\ (body["status"] \in NonTerminal
                   => DOMAIN body = {"task_id", "status", "attempt_id"})

\* C7 witness: a poll has answered for a task that is being processed.
C7_Witness ==
    /\ last.op = "get_task_status"
    /\ last.status_code = 200
    /\ last.body["status"] = "processing"

\* C8: a step of get_task_status, found or not found, leaves the five stores as
\* they are.
C8_StatusIsPureRead ==
    [][ last'.op = "get_task_status"
        => UNCHANGED <<tasks_db, transcripts_db, scores_db, feedback_db,
                       analysis_db>> ]_vars

\* C8 witness: a poll for an unknown task id has answered 404 while tasks exist.
C8_Witness ==
    /\ last.op = "get_task_status"
    /\ last.status_code = 404
    /\ tasks_db # <<>>

\* C9: when get_score answers for an attempt, it answers with the BandScore of
\* every completed task of that attempt.
C9_ScoreOfAttemptIsTaskScore ==
    last.op = "get_score"
    => \A t \in TasksOf(last.attempt_id) :
           tasks_db[t]["status"] = "completed"
           => /\ last.status_code = 200
              /\ last.body.id = tasks_db[t]["score_id"]

\* C10: when score_attempt has answered, its answer says pending, the task it
\* registered is pending, and the job of that task has not run a line yet.
C10_AnswersBeforePipeline ==
    last.op = "score_attempt"
    => LET t == last.body.task_id
       IN  /\ last.body.status = "pending"
           /\ t \in DOMAIN tasks_db
           /\ tasks_db[t]["status"] = "pending"
           /\ DOMAIN tasks_db[t] \cap {"score_id", "feedback_id", "error"} = {}
           /\ jobs[t].pc = "scheduled"
           /\ jobs[t].attempt_transcripts = <<>>

\* C10 witness: score_attempt has answered while the stores already hold
\* transcripts and the score of an earlier scoring.
C10_Witness ==
    /\ last.op = "score_attempt"
    /\ transcripts_db # <<>>
    /\ scores_db # <<>>

\* C14: no two transcripts of transcripts_db are of the same segment, that is
\* of the same attempt id, part and question index: transcribing a segment
\* again replaces its transcript.
C14_OneTranscriptPerSegment ==
    \A i, j \in DOMAIN transcripts_db :
        (/\ transcripts_db[i].attempt_id = transcripts_db[j].attempt_id
         /\ transcripts_db[i].part = transcripts_db[j].part
         /\ transcripts_db[i].question_index = transcripts_db[j].question_index)
        => i = j

\* C15: when the Whisper call fails, transcribe_audio still answers with a
\* Transcript, and its confidence is below that of a transcript of a call
\* that succeeded.
C15_FallbackConfidenceIsLower ==
    (/\ last.op = "transcribe_audio"
     /\ last.status_code = 200
     /\ settings.STT_PROVIDER = "openai" /\ settings.OPENAI_API_KEY
     /\ last.body.transcription_service = "mock")
    => \A outcome \in WhisperOutcomes :
           ~outcome.error
           => last.body.confidence < transcribe_with_whisper(outcome).confidence

\* C26: when the Whisper call fails, transcribe_audio calls the backend once
\* more before it falls back: an upload answered with the fallback transcript
\* has made exactly two backend calls, and no upload makes more than two.
C26_RetriesOnceBeforeFallback ==
    (last.op = "transcribe_audio" /\ last.status_code = 200)
    => /\ last.backend_calls <= 2
       /\ (/\ settings.STT_PROVIDER = "openai" /\ settings.OPENAI_API_KEY
           /\ last.body.transcription_service = "mock")
          => last.backend_calls = 2

\* C25: scoring starts only when every segment of the request has a
\* Transcript, the job having transcribed those that lacked one: a job that
\* has called the scorer holds, for each segment of its request, a transcript
\* of that segment of its attempt.
C25_TranscriptionBarrier ==
    \A t \in DOMAIN jobs :
        jobs[t].pc \in {"scoring", "running", "done"}
        => \A segment \in RequestSegments :
               \E i \in DOMAIN jobs[t].attempt_transcripts :
                   LET transcript == jobs[t].attempt_transcripts[i]
                   IN  /\ transcript.attempt_id = jobs[t].attempt_id
                       /\ transcript.part = segment.part
                       /\ transcript.question_index = segment.question_index

\* the transcripts whose scoring has completed: those a job collected for a
\* task that is completed, and those create_mock_score collected where it has
\* returned
ScoredTranscripts ==
    UNION ( { Range(jobs[t].attempt_transcripts) :
                  t \in {t \in DOMAIN jobs : tasks_db[t]["status"] = "completed"} }
            \cup
            { Range(mock_calls[c].attempt_transcripts) :
                  c \in {c \in DOMAIN mock_calls :
                             /\ mock_calls[c].pc = "done"
                             /\ ~calculate_band_score(
                                     1, mock_calls[c].attempt_transcripts,
                                     mock_calls[c].target_band,
                                     AssessError).raised} } )

\* C21 (under SpecReads): once the scoring of an attempt has completed, every
\* transcript that was collected for it has exactly one LanguageAnalysis in
\* analysis_db, and get_language_analysis answers a request for that
\* transcript with an analysis of it.
C21_OneAnalysisPerTranscript ==
    \A transcript \in ScoredTranscripts :
        /\ Cardinality({i \in DOMAIN analysis_db :
                            analysis_db[i].transcript_id = transcript.id}) = 1
        /\ (/\ last.op = "get_language_analysis"
            /\ last.transcript_id = transcript.id)
           => /\ last.status_code = 200
              /\ last.body.transcript_id = transcript.id

\* C22 (under SpecText): every Transcript in transcripts_db has a confidence
\* between 0 and 1, and a word_count that is the number of words its text
\* splits into at whitespace.
C22_ConfidenceAndWordCount ==
    \A i \in DOMAIN transcripts_db :
        /\ 0 <= transcripts_db[i].confidence
        /\ transcripts_db[i].confidence <= 100
        /\ transcripts_db[i].word_count = transcripts_db[i].text.words

\* C22 witness: a transcript of what Whisper heard is stored, of a text of
\* several words of which lower() makes one a filler word.
C22_Witness ==
    \E i \in DOMAIN transcripts_db :
        /\ transcripts_db[i].transcription_service = "openai-whisper"
        /\ transcripts_db[i].word_count >= 2
        /\ transcripts_db[i].filler_words # <<>>
        /\ ~transcripts_db[i].text.um_uh

\* C20: scores_db holds at most one BandScore per attempt id, whatever
\* score_attempt, process_scoring and create_mock_score have done.
C20_OneScorePerAttempt ==
    \A i, j \in DOMAIN scores_db :
        scores_db[i].attempt_id = scores_db[j].attempt_id => i = j

\* C18: a task whose job has been at work for longer than the deadline is
\* failed with the reason Timeout; it is not processing any more.
C18_DeadlineFailsTask ==
    \A t \in DOMAIN jobs :
        jobs[t].elapsed > SCORING_TIMEOUT
        => /\ tasks_db[t]["status"] = "failed"
           /\ tasks_db[t]["error"].message = "Timeout"

(***************************************************************************)
(* Properties of calculate_band_score (under SpecScoring)                  *)
(***************************************************************************)
\* the call has returned a BandScore
Scored == last.op = "calculate_band_score" /\ ~last.called.raised

\* C11: a call of calculate_band_score with no transcripts returns no
\* BandScore: it fails, and with the error NoTranscriptsAvailable.
C11_EmptyListFails ==
    (last.op = "calculate_band_score" /\ last.transcripts = <<>>)
    => /\ last.called.raised
       /\ last.called.exc.kind = "NoTranscriptsAvailable"

\* the four criterion bands of a BandScore, added up
CriteriaSum(score) ==
    score.fluency_coherence + score.lexical_resource
        + score.grammatical_range_accuracy + score.pronunciation

\* C12: in every BandScore calculate_band_score returns, on either path, the
\* overall band is the mean of the four criterion bands rounded to the nearest
\* half band: in half bands, it is within a half of a quarter of their sum.
C12_OverallIsRoundedMean ==
    Scored
    => (4 * last.called.value.overall_band - CriteriaSum(last.called.value))
           \in -2..2

\* C13: a BandScore returned for a call with a target band carries that target
\* and the gap target - overall, whatever its sign; one returned for a call
\* without a target carries neither.
C13_TargetAndGap ==
    Scored
    => LET score == last.called.value
       IN  IF last.target_band # Nothing
           THEN /\ score.target_band = last.target_band
                /\ score.gap_to_target =
                       Some(last.target_band[1] - score.overall_band)
           ELSE /\ score.target_band = Nothing
                /\ score.gap_to_target = Nothing

\* C16: when the call of the scoring backend fails, calculate_band_score
\* returns the BandScore of the heuristic scorer, tagged as the heuristic's:
\* it does not raise, and it tags no score as the backend's.
C16_BackendFailureUsesHeuristic ==
    (last.op = "calculate_band_score" /\ Suspends(last.transcripts)
         /\ last.reply.error)
    => /\ ~last.called.raised
       /\ last.called.value.scoring_model = "mock"
       /\ LET heuristic == mock_scoring(1, last.transcripts)
              score == last.called.value
          IN  /\ score.overall_band = heuristic.overall_band
              /\ score.fluency_coherence = heuristic.fluency_coherence
              /\ score.lexical_resource = heuristic.lexical_resource
              /\ score.grammatical_range_accuracy =
                     heuristic.grammatical_range_accuracy
              /\ score.pronunciation = heuristic.pronunciation

(***************************************************************************)
(* Progress of the job (under SpecFair)                                    *)
(***************************************************************************)
\* C23: every task that score_attempt has created is eventually completed or
\* failed, on a loop that runs its job and with a backend that answers.
C23_EveryTaskEnds ==
    \A task_id \in 1..MaxLoad :
        (task_id \in DOMAIN tasks_db)
            ~> (task_id \in DOMAIN tasks_db
                    /\ tasks_db[task_id]["status"] \in Terminal)

\* C23 witness: the job of one task has ended and left it failed, the job
\* of another has not begun
C23_Witness ==
    /\ \E t \in DOMAIN tasks_db :
           tasks_db[t]["status"] = "failed" /\ jobs[t].pc = "done"
    /\ \E t \in DOMAIN tasks_db : tasks_db[t]["status"] = "pending"

(***************************************************************************)
(* Properties of the stage operations (under SpecStages)                   *)
(***************************************************************************)
\* C27: a call of calculate_band_score, generate_feedback or analyze_language
\* leaves the status of every task and the score, feedback and analysis
\* stores as they were: whatever changes them is not a stage operation.
C27_StagesWriteNoStore ==
    [][ last'.op \in {"calculate_band_score", "generate_feedback",
                      "analyze_language"}
        => UNCHANGED <<tasks_db, scores_db, feedback_db, analysis_db>> ]_vars

\* C27 witness: the three stage operations have run for a processing task, the
\* analyzer on the second of its transcripts
C27_Witness ==
    /\ last.op = "analyze_language"
    /\ last.analyzed = 2
    /\ last.called.transcript_id = 2
    /\ tasks_db[1]["status"] = "processing"
    /\ scores_db = <<>> /\ feedback_db = <<>> /\ analysis_db = <<>>

(***************************************************************************)
(* Properties of the job among other jobs (under Spec)                     *)
(***************************************************************************)
\* C30: a step of process_scoring for one task leaves the record of every
\* other task as it is, status, result references and error alike, tasks of
\* the same attempt included.
C30_OnlyOwnRecord ==
    [][ last'.op = "process_scoring"
        => \A t \in DOMAIN tasks_db :
               t # last'.task_id
               => /\ t \in DOMAIN tasks_db'
                  /\ tasks_db'[t] = tasks_db[t] ]_vars

\* C30 witness: the job of one task has just closed it while another task of
\* the same attempt is still pending.
C30_Witness ==
    /\ last.op = "process_scoring"
    /\ tasks_db[last.task_id]["status"] \in Terminal
    /\ \E t \in DOMAIN tasks_db :
           /\ t # last.task_id
           /\ tasks_db[t]["attempt_id"] = tasks_db[last.task_id]["attempt_id"]
           /\ tasks_db[t]["status"] = "pending"

\* C28: a run of process_scoring that ends failed stores nothing: every step of
\* a job that does not leave its task completed leaves scores_db, feedback_db
\* and analysis_db as they are, so the read handlers find nothing of that run.
C28_FailedRunLeavesNothing ==
    [][ (/\ last'.op = "process_scoring"
         /\ tasks_db'[last'.task_id]["status"] # "completed")
        => UNCHANGED <<scores_db, feedback_db, analysis_db>> ]_vars

\* C28 witness: a job has just failed the task of an attempt that has
\* transcripts to score and to analyse.
C28_Witness ==
    /\ last.op = "process_scoring"
    /\ tasks_db[last.task_id]["status"] = "failed"
    /\ jobs[last.task_id].attempt_transcripts # <<>>

\* C24: within one task feedback comes after scoring and is about its result:
\* a step of a job that stores a FeedbackReport stores, in that same step and
\* before it, the BandScore the scorer returned to that job, the report refers
\* to that BandScore and so does the task; and the job of a task that has its
\* feedback takes no further step, so no scoring follows the feedback.
C24_FeedbackFollowsOwnScore ==
    [][ /\ (last'.op = "process_scoring" /\ feedback_db' # feedback_db)
            => /\ Len(scores_db') = Len(scores_db) + 1
               /\ Len(feedback_db') = Len(feedback_db) + 1
               /\ LET score == scores_db'[Len(scores_db')]
                      feedback == feedback_db'[Len(feedback_db')]
                      task == tasks_db'[last'.task_id]
                  IN  /\ feedback.score_id = score.id
                      /\ feedback.attempt_id = score.attempt_id
                      /\ task["score_id"] = score.id
                      /\ task["feedback_id"] = feedback.id
        /\ \A t \in DOMAIN tasks_db :
               "feedback_id" \in DOMAIN tasks_db[t]
               => /\ jobs'[t] = jobs[t]
                  /\ tasks_db'[t] = tasks_db[t] ]_vars

\* C24 witness: a job has just completed a task of an attempt that already
\* had a score from an earlier scoring.
C24_Witness ==
    /\ last.op = "process_scoring"
    /\ tasks_db[last.task_id]["status"] = "completed"
    /\ \E i \in DOMAIN scores_db :
           /\ scores_db[i].id # tasks_db[last.task_id]["score_id"]
           /\ scores_db[i].attempt_id =
                  scores_db[Len(scores_db)].attempt_id

\* C29: the results of one task come from one set of transcripts, those of the
\* task's attempt that were stored when processing began.  The step that
\* begins processing collects exactly them; no later step, of this job or of
\* a handler that stores another transcript, changes what was collected; and
\* the step that completes the task stores a score of them (of their attempt,
\* and with the heuristic's band for them when the heuristic scored) and one
\* analysis for each of them, in their order, and for no other transcript.
C29_OneTranscriptSet ==
    [][ \A t \in DOMAIN tasks_db :
          LET began == /\ tasks_db[t]["status"] = "pending"
                       /\ tasks_db'[t]["status"] = "processing"
              completes == /\ tasks_db[t]["status"] = "processing"
                           /\ tasks_db'[t]["status"] = "completed"
              collected == jobs[t].attempt_transcripts
              score == scores_db'[Len(scores_db')]
          IN  /\ began
                  => jobs'[t].attempt_transcripts =
                         TranscriptsOf(transcripts_db, tasks_db[t]["attempt_id"])
              /\ tasks_db[t]["status"] = "processing"
                  => jobs'[t].attempt_transcripts = collected
              /\ completes
                  => /\ Len(scores_db') = Len(scores_db) + 1
                     /\ score.attempt_id = IF collected = <<>> THEN "mock"
                                            ELSE tasks_db[t]["attempt_id"]
                     /\ score.scoring_model = "mock"
                            => score.overall_band = base_score(collected)
                     /\ Len(analysis_db') = Len(analysis_db) + Len(collected)
                     /\ \A i \in DOMAIN collected :
                            /\ collected[i].attempt_id = tasks_db[t]["attempt_id"]
                            /\ analysis_db'[Len(analysis_db) + i].transcript_id
                                   = collected[i].id ]_vars

\* C29 witness: a job has just completed a task that had transcripts to score,
\* and a transcript of the same attempt was stored while it was at work.
C29_Witness ==
    /\ last.op = "process_scoring"
    /\ tasks_db[last.task_id]["status"] = "completed"
    /\ jobs[last.task_id].attempt_transcripts # <<>>
    /\ jobs[last.task_id].attempt_transcripts #
           TranscriptsOf(transcripts_db, tasks_db[last.task_id]["attempt_id"])

====
